---- MODULE Spec2Model ----
(***************************************************************************)
(* LSPS (src/lsps.py): a writer appends log lines to per-day files of a    *)
(* stream folder (log_message); process_local_log_stream tails those files *)
(* from a persisted byte offset (the ".<file>.counter" artifact), hands    *)
(* every unread line to a callback and persists the new offset;            *)
(* process_remote_log_stream runs the same pass on another host and hands  *)
(* the captured output to a local callback.                                *)
(*                                                                         *)
(* A folder is a map from file names to contents; a file is a sequence of  *)
(* lines; a line is a record [id, size]: id identifies the appended line   *)
(* (history only, the callback sees the text), size is its length in bytes *)
(* including the terminator.  Offsets are byte counts.  A counter artifact *)
(* holds text, modelled as a sequence of characters.                       *)
(***************************************************************************)
EXTENDS Integers, Sequences, FiniteSets, TLC

VARIABLES
    logs,       \* logs[d][f]: content of log file f of folder d (DOMAIN = existing files)
    counter,    \* counter[d][f]: text of the artifact ".f.counter" (DOMAIN = existing artifacts)
    old,        \* old[d]: files with time.time() - st_ctime > 24h
    nextId,     \* identity of the next appended line (history)
    loc,        \* loc[p]: the locals of reader p's process_local_log_stream call
    sinkLog,    \* sinkLog[p]: the lines reader p's callback was called with, in order (history)
    snap,       \* snap[p]: the folder as it was when p's call began (history, kept by SpecSeq)
    rem,        \* the locals of the process_remote_log_stream call, and what it logged
    badLines    \* the lines the callback of a twin run fails on (SpecTwin)

vars == <<logs, counter, old, nextId, loc, sinkLog, snap, rem, badLines>>

(* ------------------------------ bounds --------------------------------- *)
MaxAppends == 3      \* lines the writer appends in one behaviour
MaxBudget  == 2      \* max_lines ranges over 0..MaxBudget

Files    == {"d1", "d2"}          \* "<name>.<date>.lsps" files of a stream folder
Folders  == {"local", "peer"}     \* stream folders (LOGGER_DIR/name on a host)
Readers  == {"r1", "r2"}          \* processes calling process_local_log_stream
LineSizes == {2}                  \* bytes of one appended line, terminator included

ReadCap == 65536                  \* readline(1024 * 64)

NoLine == [id |-> 0, size |-> 0]  \* readline() returned ""
Abc == <<"a", "b", "c">>          \* a non-numeric counter text

(* ------------------------- text of an offset --------------------------- *)
DigitChars == <<"0", "1", "2", "3", "4", "5", "6", "7", "8", "9">>

RECURSIVE Str(_)
\* str(position)
Str(n) ==
    IF n < 10 THEN <<DigitChars[n + 1]>>
    ELSE Append(Str(n \div 10), DigitChars[(n % 10) + 1])

\* _p.isdigit()
IsDigit(s) ==
    /\ Len(s) > 0
    /\ \A k \in 1..Len(s) : \E d \in 1..10 : DigitChars[d] = s[k]

DigitValue(c) == (CHOOSE d \in 1..10 : DigitChars[d] = c) - 1

RECURSIVE IntOf(_)
\* int(_p)
IntOf(s) ==
    IF Len(s) = 0 THEN 0
    ELSE 10 * IntOf(SubSeq(s, 1, Len(s) - 1)) + DigitValue(s[Len(s)])

\* a reader that never finds its counter starts every call at offset 0
LoadPositionZero(d, f) == 0

\* lines 101-107: the offset a call starts from
LoadPosition(d, f) ==
    IF f \in DOMAIN counter[d] /\ IsDigit(counter[d][f])
    THEN IntOf(counter[d][f])
    ELSE 0

(* ----------------------------- file reads ------------------------------ *)
Min(a, b) == IF a < b THEN a ELSE b

RECURSIVE ReadFrom(_, _, _, _)
ReadFrom(content, pos, k, start) ==
    IF k > Len(content) THEN NoLine
    ELSE LET end == start + content[k].size IN
         IF pos < end
         THEN [id |-> content[k].id, size |-> Min(end - pos, ReadCap)]
         ELSE ReadFrom(content, pos, k + 1, end)

\* fp.seek(pos); fp.readline(1024 * 64)
ReadLine(content, pos) == ReadFrom(content, pos, 1, 0)

\* a position that a read does not move
TellStart(pos, line) == pos

\* fp.tell() after the readline that returned line
Tell(pos, line) == pos + line.size

RECURSIVE FileSize(_)
FileSize(content) ==
    IF content = <<>> THEN 0
    ELSE content[1].size + FileSize(Tail(content))

(* ------------------------------ folders -------------------------------- *)
Without(fn, x) == [y \in DOMAIN fn \ {x} |-> fn[y]]
With(fn, x, v) == [y \in DOMAIN fn \cup {x} |-> IF y = x THEN v ELSE fn[y]]

\* the orders os.listdir may return the log files of a folder in
Listings(S) ==
    {s \in UNION {[1..n -> S] : n \in {Cardinality(S)}} :
        \A a, b \in 1..Cardinality(S) : a # b => s[a] # s[b]}

\* no call of p is running: none was made yet, or the last one has ended
Idle(p) == loc[p].pc = "idle"
Ended(p) == loc[p].pc \in {"returned", "raised"}

\* the locals of a call that has just begun (lines 92-97)
Locals(d, omit, max, listing) ==
    [pc |-> "for", name |-> d, omit_error |-> omit, max_lines |-> max,
     listing |-> listing, i |-> 1, lines_read |-> 0, position |-> 0,
     line |-> NoLine, exc |-> "none", failed |-> {}]

IdleLoc == [Locals("local", FALSE, 0, <<>>) EXCEPT !.pc = "idle"]

NoSnap == [unread |-> <<>>, expired |-> {}, counter |-> <<>>, clean |-> TRUE, alone |-> TRUE]

\* the locals of process_remote_log_stream when no call is running
IdleRem ==
    [pc |-> "idle", transport |-> "paramiko", reachable |-> TRUE, errors |-> FALSE,
     lines |-> <<>>, mark |-> 0, logged |-> {}, calls |-> <<>>, failed |-> FALSE]

\* the lines of content that start at or after offset pos
RECURSIVE LinesFrom(_, _, _)
LinesFrom(content, pos, start) ==
    IF content = <<>> THEN <<>>
    ELSE IF start >= pos THEN content
    ELSE LinesFrom(Tail(content), pos, start + content[1].size)

\* the lines of f its persisted checkpoint has not passed
UnreadLines(d, f) == LinesFrom(logs[d][f], LoadPosition(d, f), 0)
Unread(d, f) == Len(UnreadLines(d, f))

\* the lines appended so far
Appended == 1..(nextId - 1)

(* ------------------------------- writer -------------------------------- *)
\* log_message(name, message): one line appended to a day file of the folder,
\* which the handler creates when it is not there; the write renews st_ctime
Appending(lg, d, f, size) ==
    [lg EXCEPT ![d] =
        With(@, f, (IF f \in DOMAIN @ THEN @[f] ELSE <<>>)
                    \o <<[id |-> nextId, size |-> size]>>)]

AppendLine(d, f, size) ==
    /\ nextId <= MaxAppends
    /\ logs' = Appending(logs, d, f, size)
    /\ old' = [old EXCEPT ![d] = @ \ {f}]
    /\ nextId' = nextId + 1
    /\ UNCHANGED <<counter, loc, snap, sinkLog, rem, badLines>>

\* time passes: an existing file becomes older than 24 hours
Age(d, f) ==
    /\ f \in DOMAIN logs[d]
    /\ f \notin old[d]
    /\ old' = [old EXCEPT ![d] = @ \cup {f}]
    /\ UNCHANGED <<logs, counter, nextId, loc, snap, sinkLog, rem, badLines>>

(* ----------------------- process_local_log_stream ---------------------- *)
\* lines 92-97: the call begins; os.listdir(folder) is taken once
Call(p, d, omit, max, listing) ==
    /\ Idle(p)
    /\ loc' = [loc EXCEPT ![p] = Locals(d, omit, max, listing)]
    /\ UNCHANGED <<logs, counter, old, nextId, sinkLog>>

\* lines 97-99: the listing is exhausted, or the budget is used up
Return(p) ==
    /\ loc[p].pc = "for"
    /\ \/ loc[p].i > Len(loc[p].listing)
       \/ loc[p].lines_read >= loc[p].max_lines
    /\ loc' = [loc EXCEPT ![p].pc = "returned"]
    /\ UNCHANGED <<logs, counter, old, nextId, snap, sinkLog, rem, badLines>>

\* the caller goes on after the call: the locals of the call are gone
Done(p) ==
    /\ Ended(p)
    /\ loc' = [loc EXCEPT ![p] = IdleLoc]
    /\ UNCHANGED <<logs, counter, old, nextId, sinkLog, badLines>>

\* the for loop moves to the next entry; position and line are reassigned
\* there before they are read (lines 101, 113)
NextFile(l) == [l EXCEPT !.pc = "for", !.i = @ + 1, !.position = 0, !.line = NoLine]

\* lines 100-114: load the counter, open the file, seek, read the first line
BeginFile(p) ==
    LET d == loc[p].name
        f == loc[p].listing[loc[p].i]
        pos == LoadPosition(d, f)
    IN  /\ loc[p].pc = "for"
        /\ loc[p].i <= Len(loc[p].listing)
        /\ loc[p].lines_read < loc[p].max_lines
        /\ IF f \in DOMAIN logs[d]
           THEN LET line == ReadLine(logs[d][f], pos) IN
                loc' = [loc EXCEPT ![p].line = line,
                                   ![p].position = Tell(pos, line),
                                   ![p].pc = IF line = NoLine THEN "stat" ELSE "callback"]
           ELSE loc' = [loc EXCEPT ![p].pc = "raised", ![p].exc = "open"]
        /\ UNCHANGED <<logs, counter, old, nextId, snap, sinkLog, rem, badLines>>

\* a test of age that never finds a file expired
ExpiredNever(d, f) == FALSE

\* line 117: time.time() - os.stat(log_file).st_ctime > 3600 * 24 * 1
Expired(d, f) == f \in old[d]

\* lines 115-117: no new line; os.stat decides whether the file is expired
CheckExpired(p) ==
    LET d == loc[p].name
        f == loc[p].listing[loc[p].i]
    IN  /\ loc[p].pc = "stat"
        /\ loc' = [loc EXCEPT ![p] =
                IF Expired(d, f) THEN [@ EXCEPT !.pc = "unlink_log"] ELSE NextFile(@)]
        /\ UNCHANGED <<logs, counter, old, nextId, snap, sinkLog, rem, badLines>>

\* line 120: os.unlink(log_file)
UnlinkLog(p) ==
    LET d == loc[p].name
        f == loc[p].listing[loc[p].i]
    IN  /\ loc[p].pc = "unlink_log"
        /\ logs' = [logs EXCEPT ![d] = Without(@, f)]
        /\ old' = [old EXCEPT ![d] = @ \ {f}]
        /\ loc' = [loc EXCEPT ![p].pc = "unlink_count"]
        /\ UNCHANGED <<counter, nextId, snap, sinkLog, rem, badLines>>

\* what os.unlink(count_file) does: "removed", or "missing" (FileNotFoundError)
UnlinkOutcome(d, f) == IF f \in DOMAIN counter[d] THEN "removed" ELSE "missing"

\* line 121: os.unlink(count_file)
UnlinkCounter(p) ==
    LET d == loc[p].name
        f == loc[p].listing[loc[p].i]
    IN  /\ loc[p].pc = "unlink_count"
        /\ IF UnlinkOutcome(d, f) = "removed"
           THEN /\ counter' = [counter EXCEPT ![d] = Without(@, f)]
                /\ loc' = [loc EXCEPT ![p] = NextFile(@)]
           ELSE /\ counter' = counter
                /\ loc' = [loc EXCEPT ![p].pc = "raised", ![p].exc = "unlink"]
        /\ UNCHANGED <<logs, old, nextId, snap, sinkLog, rem, badLines>>

\* line 136: the budget test that ends the reading of a file
BudgetSpent(lines_read, max_lines) == lines_read > max_lines

\* a save that always writes offset 0
SavedTextZero(position) == Str(0)

\* lines 132-133 and 142-143: the text written to the counter artifact
SavedText(position) == Str(position)

\* saving the offset of the failing line itself, so that it is read again
FailurePositionBefore(position, line) == position - line.size

\* lines 130-133: the position saved when the callback failed on line; it was
\* advanced past that line when the line was read (114, 139)
FailurePosition(position, line) == position

\* a failure after which the call goes on with the next file of the listing
AbortGoesOn(l) == NextFile(l)

\* line 134: "raise e" ends the call
Abort(l) == [l EXCEPT !.pc = "raised", !.exc = "callback"]

\* a failure that is raised whatever omit_error says
PropagatesAlways(ok, omit_error) == ~ok

\* lines 128-134: a failure of the callback is raised unless omit_error is set
Propagates(ok, omit_error) == ~ok /\ ~omit_error

\* lines 123-143: one turn of the while loop. The line is counted and handed to
\* the callback, which succeeds or fails. A failure that is not omitted saves
\* the position and is raised (130-134). Otherwise the loop stops on the budget
\* (136-137) or reads the next line (138-139); when it ends the position is
\* saved (141-143) and the for loop goes on.
Deliver(p, ok) ==
    LET d == loc[p].name
        f == loc[p].listing[loc[p].i]
        n == loc[p].lines_read + 1
        next == IF BudgetSpent(n, loc[p].max_lines) THEN NoLine
                ELSE ReadLine(logs[d][f], loc[p].position)
        position == IF BudgetSpent(n, loc[p].max_lines) THEN loc[p].position
                    ELSE Tell(loc[p].position, next)
        failed == IF ok THEN loc[p].failed ELSE loc[p].failed \cup {loc[p].line.id}
    IN  /\ loc[p].pc = "callback"
        /\ sinkLog' = [sinkLog EXCEPT ![p] = Append(@, [line |-> loc[p].line, file |-> f])]
        /\ IF Propagates(ok, loc[p].omit_error)
           THEN /\ counter' = [counter EXCEPT ![d] =
                        With(@, f, SavedText(FailurePosition(loc[p].position, loc[p].line)))]
                /\ loc' = [loc EXCEPT ![p] =
                        Abort([@ EXCEPT !.lines_read = n, !.failed = failed])]
           ELSE IF next = NoLine
           THEN /\ counter' = [counter EXCEPT ![d] = With(@, f, SavedText(position))]
                /\ loc' = [loc EXCEPT ![p] =
                        NextFile([@ EXCEPT !.lines_read = n, !.failed = failed])]
           ELSE /\ counter' = counter
                /\ loc' = [loc EXCEPT ![p].lines_read = n, ![p].failed = failed,
                                      ![p].line = next, ![p].position = position]
        /\ UNCHANGED <<logs, old, nextId, snap, rem, badLines>>

DeliverLine(p) == \E ok \in BOOLEAN : Deliver(p, ok)

(* --------------------------- specifications ---------------------------- *)
\* a folder as a call can find it: a file is not there yet, or is there and
\* still empty, with no counter or with a counter that holds no number
StartFiles == {"d1"}

\* nothing is running, nothing was appended or delivered yet
Fresh ==
    /\ old = [d \in Folders |-> {}]
    /\ nextId = 1
    /\ loc = [p \in Readers |-> IdleLoc]
    /\ snap = [p \in Readers |-> NoSnap]
    /\ sinkLog = [p \in Readers |-> <<>>]
    /\ rem = IdleRem
    /\ badLines = {}

\* the folder d0 holds the start files in one of their states; the other
\* folder is empty
StartFolder(d0) ==
    \E fd \in [StartFiles -> {"absent", "empty", "garbled"}] :
        /\ logs = [d \in Folders |->
                IF d = d0
                THEN [f \in {g \in StartFiles : fd[g] # "absent"} |-> <<>>]
                ELSE <<>>]
        /\ counter = [d \in Folders |->
                IF d = d0
                THEN [f \in {g \in StartFiles : fd[g] = "garbled"} |-> Abc]
                ELSE <<>>]

Init == StartFolder("local") /\ Fresh

Writer == \E f \in Files, size \in LineSizes : AppendLine("local", f, size)

Clock == \E f \in Files : Age("local", f)

Begin ==
    \E omit \in BOOLEAN, max \in 0..MaxBudget,
       listing \in Listings(DOMAIN logs["local"]) :
        /\ Call("r1", "local", omit, max, listing)
        /\ UNCHANGED <<snap, rem, badLines>>

Finish == Done("r1") /\ UNCHANGED <<snap, rem>>

Reader(p) ==
    \/ Return(p)
    \/ BeginFile(p)
    \/ CheckExpired(p)
    \/ UnlinkLog(p)
    \/ UnlinkCounter(p)
    \/ DeliverLine(p)

Next ==
    \/ Writer
    \/ Clock
    \/ Begin
    \/ Reader("r1")
    \/ Finish

Spec == Init /\ [][Next]_vars

\* A call that has begun goes on running: no step of it waits for anything
\* (lines 96-143 hold no sleep, lock or blocking read), so the steps of the
\* reader are taken whenever they stay possible.
SpecRun == Init /\ [][Next]_vars /\ WF_vars(Reader("r1"))

(* --------------------------- repeated calls ---------------------------- *)
\* The caller polls: it calls again and again with max_lines >= 1 and a
\* callback that does not fail; the writer appends when it likes, and no more
\* than MaxAppends lines in all.
BeginOk ==
    \E omit \in BOOLEAN, max \in 1..MaxBudget,
       listing \in Listings(DOMAIN logs["local"]) :
        /\ Call("r1", "local", omit, max, listing)
        /\ UNCHANGED <<snap, rem, badLines>>

ReaderOk ==
    \/ Return("r1")
    \/ BeginFile("r1")
    \/ CheckExpired("r1")
    \/ UnlinkLog("r1")
    \/ UnlinkCounter("r1")
    \/ Deliver("r1", TRUE)

NextRepeat ==
    \/ Writer
    \/ Clock
    \/ BeginOk
    \/ ReaderOk
    \/ Finish

SpecRepeat ==
    /\ Init
    /\ [][NextRepeat]_vars
    /\ WF_vars(BeginOk)
    /\ WF_vars(ReaderOk)
    /\ WF_vars(Finish)

(* ------------------------- the sequential scenario --------------------- *)
\* The writer and the clock act only between calls, as in a test that appends,
\* calls, appends again. A call begins by recording what it found; as it ends
\* the caller notes whether its sink failed during it.
Quiet == \A p \in Readers : Idle(p)

TakeSnap(p, d) ==
    [unread  |-> [f \in DOMAIN logs[d] |-> Unread(d, f)],
     expired |-> {f \in DOMAIN logs[d] : Unread(d, f) = 0 /\ f \in old[d]},
     counter |-> counter[d],
     alone   |-> snap[p].alone,
     clean   |-> snap[p].clean]

SeqWriter == Quiet /\ Writer

SeqClock == Quiet /\ Clock

SeqBegin ==
    \E omit \in BOOLEAN, max \in 0..MaxBudget,
       listing \in Listings(DOMAIN logs["local"]) :
        /\ Call("r1", "local", omit, max, listing)
        /\ snap' = [snap EXCEPT !["r1"] = TakeSnap("r1", "local")]
        /\ UNCHANGED <<rem, badLines>>

SeqFinish ==
    /\ Done("r1")
    /\ snap' = [snap EXCEPT !["r1"] =
            [NoSnap EXCEPT !.clean = snap["r1"].clean /\ loc["r1"].failed = {},
                           !.alone = snap["r1"].alone]]
    /\ UNCHANGED rem

NextSeq ==
    \/ SeqWriter
    \/ SeqClock
    \/ SeqBegin
    \/ Reader("r1")
    \/ SeqFinish

SpecSeq == Init /\ [][NextSeq]_vars

(* ------------------------- two callers, one stream --------------------- *)
\* Two processes call process_local_log_stream on the same stream with nothing
\* that keeps their calls apart. The callbacks do not fail, the writer appends
\* between calls to the one file of the stream, and no file gets older than
\* 24 hours, so nothing is deleted.
\* snap[p].alone records that no call has begun while another was running.
Running(p) == ~Idle(p) /\ ~Ended(p)

PairWriter == Quiet /\ \E f \in StartFiles, size \in LineSizes : AppendLine("local", f, size)

PairBegin(p) ==
    /\ \E max \in 1..MaxBudget, listing \in Listings(DOMAIN logs["local"]) :
          Call(p, "local", FALSE, max, listing)
    /\ snap' = IF \E q \in Readers \ {p} : Running(q)
               THEN [q \in Readers |-> [snap[q] EXCEPT !.alone = FALSE]]
               ELSE snap
    /\ UNCHANGED <<rem, badLines>>

PairPass(p) ==
    \/ Return(p)
    \/ BeginFile(p)
    \/ CheckExpired(p)
    \/ Deliver(p, TRUE)

PairFinish(p) == Done(p) /\ UNCHANGED <<snap, rem>>

NextPair ==
    \/ PairWriter
    \/ \E p \in Readers : PairBegin(p)
    \/ \E p \in Readers : PairPass(p)
    \/ \E p \in Readers : PairFinish(p)

SpecPair == Init /\ [][NextPair]_vars

(* ---------------------- process_remote_log_stream ---------------------- *)
RemoteBudget == 1000                 \* --max-lines default of the command line
Transports == {"paramiko", "subprocess"}

\* lines 146-152: the call begins and logs "process <name> at <host>"; which
\* transport it takes was decided when the module was imported
RemoteCall(transport, reachable) ==
    /\ rem.pc = "idle"
    /\ Idle("r2")
    /\ rem' = [IdleRem EXCEPT !.pc = IF transport = "paramiko" THEN "connect" ELSE "popen",
                              !.transport = transport, !.reachable = reachable,
                              !.mark = Len(sinkLog["r2"]), !.logged = {"info"}]
    /\ UNCHANGED <<logs, counter, old, nextId, loc, snap, sinkLog, badLines>>

\* lines 189-222 on the other host: "python lsps.py <name>" makes one pass over
\* the stream with omit_error=True and the default budget
RemoteMain ==
    \E listing \in Listings(DOMAIN logs["peer"]) :
        Call("r2", "peer", TRUE, RemoteBudget, listing)

\* lines 153-156: ssh.connect raises when no session can be set up; otherwise
\* exec_command starts the command on the other host
Connect ==
    /\ rem.pc = "connect"
    /\ IF rem.reachable
       THEN RemoteMain /\ rem' = [rem EXCEPT !.pc = "run"]
       ELSE /\ rem' = [rem EXCEPT !.pc = "raised"]
            /\ UNCHANGED <<logs, counter, old, nextId, loc, sinkLog>>
    /\ UNCHANGED <<snap, badLines>>

\* lines 168-181: the ssh client is spawned; when it cannot reach the host it
\* writes to stderr and ends with nothing on stdout, which is logged as an error
Popen ==
    /\ rem.pc = "popen"
    /\ IF rem.reachable
       THEN RemoteMain /\ rem' = [rem EXCEPT !.pc = "run"]
       ELSE /\ rem' = [rem EXCEPT !.pc = "callback", !.errors = TRUE,
                                  !.logged = @ \cup {"error"}]
            /\ UNCHANGED <<logs, counter, old, nextId, loc, sinkLog>>
    /\ UNCHANGED <<snap, badLines>>

\* lines 203-205: print_to_stdout never fails
RemotePass ==
    \/ Return("r2")
    \/ BeginFile("r2")
    \/ CheckExpired("r2")
    \/ UnlinkLog("r2")
    \/ UnlinkCounter("r2")
    \/ Deliver("r2", TRUE)

\* lines 157-160 and 179-181: the command has ended; what it printed is the
\* captured output, a traceback on its stderr is the captured error, which the
\* subprocess path logs and the paramiko path prints
Collect ==
    /\ rem.pc = "run"
    /\ Done("r2")
    /\ rem' = [rem EXCEPT !.pc = "callback",
                          !.errors = (loc["r2"].pc = "raised"),
                          !.lines = SubSeq(sinkLog["r2"], rem.mark + 1, Len(sinkLog["r2"])),
                          !.logged = IF loc["r2"].pc = "raised" /\ rem.transport = "subprocess"
                                     THEN @ \cup {"error"} ELSE @]
    /\ UNCHANGED snap

\* a callback whose failure is not caught
AfterCallbackUncaught(ok) == IF ok THEN "returned" ELSE "raised"

\* lines 161-163 and 183-185: "except Exception" takes the failure of the
\* callback, so the call returns either way
AfterCallback(ok) == "returned"

\* lines 161-166 and 183-186: the callback is called once, with the whole
\* output; a failure of it is logged (lsps_logger.exception) and not raised
RemoteCallback(ok) ==
    /\ rem.pc = "callback"
    /\ rem' = [rem EXCEPT !.pc = AfterCallback(ok),
                          !.failed = ~ok,
                          !.calls = Append(@, rem.lines),
                          !.logged = IF ok THEN @ ELSE @ \cup {"exception"}]
    /\ UNCHANGED <<logs, counter, old, nextId, loc, snap, sinkLog, badLines>>

\* the caller goes on after the call; snap["r2"].clean records that no call so
\* far had its callback fail on output that held lines
RemoteDone ==
    /\ rem.pc \in {"returned", "raised"}
    /\ rem' = IdleRem
    /\ snap' = [snap EXCEPT !["r2"].clean = @ /\ ~(rem.failed /\ rem.lines # <<>>)]
    /\ UNCHANGED <<logs, counter, old, nextId, loc, sinkLog, badLines>>

InitRemote == StartFolder("peer") /\ Fresh

PeerWriter == \E f \in Files, size \in LineSizes : AppendLine("peer", f, size)

PeerClock == \E f \in Files : Age("peer", f)

RemoteBegin == \E transport \in Transports, reachable \in BOOLEAN : RemoteCall(transport, reachable)

RemoteSink == \E ok \in BOOLEAN : RemoteCallback(ok)

NextRemote ==
    \/ PeerWriter
    \/ PeerClock
    \/ RemoteBegin
    \/ Connect
    \/ Popen
    \/ RemotePass
    \/ Collect
    \/ RemoteSink
    \/ RemoteDone

SpecRemote == InitRemote /\ [][NextRemote]_vars

(* ------------------------------ the twin run --------------------------- *)
\* Two folders hold the same files with the same contents and ages; the file
\* d1 has a counter artifact that holds "abc" in the folder "peer" and none in
\* the folder "local". The same call is made on both, r1 on "local" and then
\* r2 on "peer", with a callback that fails on the same lines.
InitTwin ==
    /\ logs = [d \in Folders |-> [f \in StartFiles |-> <<>>]]
    /\ counter = [d \in Folders |-> IF d = "peer" THEN [f \in StartFiles |-> Abc] ELSE <<>>]
    /\ Fresh

TwinWriter ==
    /\ Quiet
    /\ sinkLog["r1"] = <<>>
    /\ nextId <= MaxAppends
    /\ \E f \in Files, size \in LineSizes :
          /\ logs' = Appending(Appending(logs, "local", f, size), "peer", f, size)
          /\ old' = [d \in Folders |-> old[d] \ {f}]
    /\ nextId' = nextId + 1
    /\ UNCHANGED <<counter, loc, snap, sinkLog, rem, badLines>>

TwinClock ==
    /\ Quiet
    /\ \E f \in DOMAIN logs["local"] \ old["local"] :
          old' = [d \in Folders |-> old[d] \cup {f}]
    /\ UNCHANGED <<logs, counter, nextId, loc, snap, sinkLog, rem, badLines>>

TwinBegin ==
    /\ Quiet
    /\ \E omit \in BOOLEAN, max \in 0..MaxBudget,
          listing \in Listings(DOMAIN logs["local"]), bad \in SUBSET Appended :
          /\ Call("r1", "local", omit, max, listing)
          /\ badLines' = bad
    /\ UNCHANGED <<snap, rem>>

TwinSecond ==
    /\ Ended("r1")
    /\ Call("r2", "peer", loc["r1"].omit_error, loc["r1"].max_lines, loc["r1"].listing)
    /\ UNCHANGED <<snap, rem, badLines>>

TwinPass(p) ==
    \/ Return(p)
    \/ BeginFile(p)
    \/ CheckExpired(p)
    \/ UnlinkLog(p)
    \/ UnlinkCounter(p)
    \/ Deliver(p, loc[p].line.id \notin badLines)

NextTwin ==
    \/ TwinWriter
    \/ TwinClock
    \/ TwinBegin
    \/ TwinSecond
    \/ TwinPass("r1")
    \/ TwinPass("r2")

SpecTwin == InitTwin /\ [][NextTwin]_vars

(* ------------------------- vocabulary of the claims -------------------- *)
Range(s) == {s[k] : k \in 1..Len(s)}
IdSeq(content) == [k \in 1..Len(content) |-> content[k].id]
Ids(content) == Range(IdSeq(content))
SunkIds(p) == IdSeq([k \in 1..Len(sinkLog[p]) |-> sinkLog[p][k].line])
SunkOf(p, content) == SelectSeq(SunkIds(p), LAMBDA x : x \in Ids(content))
IsPrefix(s, t) == /\ Len(s) <= Len(t)
                  /\ \A k \in 1..Len(s) : s[k] = t[k]
NoRepeat(s) == \A a, b \in 1..Len(s) : a # b => s[a] # s[b]
RECURSIVE SumOver(_, _)
SumOver(fn, S) ==
    IF S = {} THEN 0
    ELSE LET x == CHOOSE y \in S : TRUE IN fn[x] + SumOver(fn, S \ {x})
TotalUnread(d) == SumOver([f \in DOMAIN logs[d] |-> Unread(d, f)], DOMAIN logs[d])

\* the sink of p has succeeded on every line so far
SinkAlwaysOk(p) == snap[p].clean /\ loc[p].failed = {}

(* ------------------------------- C1 ------------------------------------ *)
\* C1: with appends made before and between the calls and a sink that has
\* always succeeded, no line reaches the sink twice, the lines of a file reach
\* it in file order and without a gap, no appended line is lost (it has reached
\* the sink or is still unread in its file), and a call that returns without
\* having used up its budget has delivered every line that was unread when it
\* began.
C1_ExactlyOnce ==
    SinkAlwaysOk("r1") =>
        /\ NoRepeat(SunkIds("r1"))
        /\ \A a, b \in 1..Len(sinkLog["r1"]) :
              (a < b /\ sinkLog["r1"][a].file = sinkLog["r1"][b].file)
                  => sinkLog["r1"][a].line.id < sinkLog["r1"][b].line.id
        /\ \A f \in DOMAIN logs["local"] :
              IsPrefix(SunkOf("r1", logs["local"][f]), IdSeq(logs["local"][f]))
        /\ \A x \in Appended :
              \/ x \in Range(SunkIds("r1"))
              \/ \E f \in DOMAIN logs["local"] : x \in Ids(UnreadLines("local", f))
        /\ (loc["r1"].pc = "returned" /\ loc["r1"].lines_read < loc["r1"].max_lines)
              => loc["r1"].lines_read =
                    SumOver(snap["r1"].unread, DOMAIN snap["r1"].unread)

\* three lines delivered once each by a succeeding sink, the last call having
\* resumed a file that an earlier call had begun
C1_Witness ==
    /\ SinkAlwaysOk("r1")
    /\ loc["r1"].pc = "returned"
    /\ Len(sinkLog["r1"]) >= 3
    /\ Appended = Range(SunkIds("r1"))
    /\ \E f \in DOMAIN logs["local"] :
          /\ f \in DOMAIN snap["r1"].unread
          /\ 0 < snap["r1"].unread[f]
          /\ snap["r1"].unread[f] < Len(logs["local"][f])
          /\ Unread("local", f) = 0

(* ------------------------------- C2 ------------------------------------ *)
\* C2: a call never hands more than max_lines lines to the sink, over all the
\* files of the stream; when a file held more than max_lines unread lines as the
\* call began, the call hands exactly max_lines lines to the sink and the
\* checkpoints it leaves keep exactly the remaining lines unread.
C2_Budget ==
    loc["r1"].pc = "returned" =>
        /\ loc["r1"].lines_read <= loc["r1"].max_lines
        /\ (\E f \in DOMAIN snap["r1"].unread :
                snap["r1"].unread[f] > loc["r1"].max_lines)
              => /\ loc["r1"].lines_read = loc["r1"].max_lines
                 /\ TotalUnread("local") =
                      SumOver(snap["r1"].unread, DOMAIN snap["r1"].unread)
                        - loc["r1"].max_lines

(* ------------------------------- C3 ------------------------------------ *)
\* the offset just after the line x of content, and the lines that follow it
RECURSIVE OffsetAfter(_, _)
OffsetAfter(content, x) ==
    IF content = <<>> THEN 0
    ELSE IF content[1].id = x THEN content[1].size
    ELSE content[1].size + OffsetAfter(Tail(content), x)

RECURSIVE LinesAfter(_, _)
LinesAfter(content, x) ==
    IF content = <<>> THEN <<>>
    ELSE IF content[1].id = x THEN Tail(content)
    ELSE LinesAfter(Tail(content), x)

\* the lines of every existing file that have reached the sink are its first
\* lines, in file order, each once: none is skipped, none comes again
DeliveredInOrder(p, d) ==
    /\ NoRepeat(SunkIds(p))
    /\ \A f \in DOMAIN logs[d] : IsPrefix(SunkOf(p, logs[d][f]), IdSeq(logs[d][f]))

\* C3: with omit_error = false, a call whose sink fails on a line raises that
\* failure and leaves as checkpoint of the file the offset just after the
\* failing line, so that exactly the lines after it are unread; and no line,
\* the failing one included, reaches the sink a second time in any later call.
C3_FailureCheckpoint ==
    /\ DeliveredInOrder("r1", "local")
    /\ (loc["r1"].pc = "raised" /\ loc["r1"].exc = "callback") =>
          LET f == loc["r1"].listing[loc["r1"].i]
              e == sinkLog["r1"][Len(sinkLog["r1"])]
          IN  /\ ~loc["r1"].omit_error
              /\ e.file = f
              /\ e.line.id \in loc["r1"].failed
              /\ f \in DOMAIN logs["local"]
              /\ f \in DOMAIN counter["local"]
              /\ counter["local"][f] = Str(OffsetAfter(logs["local"][f], e.line.id))
              /\ UnreadLines("local", f) = LinesAfter(logs["local"][f], e.line.id)

\* the sink failed on the second line of a file: the first two lines have
\* reached it, the checkpoint stands after the second, a third line is unread
C3_Witness ==
    /\ loc["r1"].pc = "raised"
    /\ loc["r1"].exc = "callback"
    /\ loc["r1"].lines_read = 2
    /\ LET f == loc["r1"].listing[loc["r1"].i]
       IN  /\ Len(logs["local"][f]) >= 3
           /\ logs["local"][f][2].id \in loc["r1"].failed
           /\ Unread("local", f) = Len(logs["local"][f]) - 2

(* ------------------------------- C4 ------------------------------------ *)
\* C4: with omit_error = true a failure of the sink never ends the call; the
\* step in which the sink fails on a line goes on to the next line of the file
\* whenever there is one and fewer than max_lines lines have been read, and
\* otherwise closes the file with the checkpoint just after the failing line;
\* once the call has returned, no line the sink failed on is unread, and none
\* reaches the sink again.
C4_StepSwallows ==
    \A p \in {"r1"} :
        (loc[p].pc = "callback" /\ loc[p].omit_error /\ loc'[p].failed # loc[p].failed) =>
            LET f == loc[p].listing[loc[p].i]
                d == loc[p].name
                after == LinesAfter(logs[d][f], loc[p].line.id)
            IN  /\ loc'[p].pc \in {"callback", "for"}
                /\ (after # <<>> /\ loc'[p].lines_read < loc[p].max_lines)
                      => loc'[p].pc = "callback"
                /\ loc'[p].pc = "callback" => loc'[p].line.id = after[1].id
                /\ loc'[p].pc = "for" =>
                      /\ loc'[p].i = loc[p].i + 1
                      /\ counter'[d][f] = Str(OffsetAfter(logs[d][f], loc[p].line.id))

C4_Returned ==
    \A p \in {"r1"} :
        loc[p].omit_error =>
            /\ ~(loc[p].pc = "raised" /\ loc[p].exc = "callback")
            /\ NoRepeat(SunkIds(p))
            /\ loc[p].pc = "returned" =>
                  \A x \in loc[p].failed : \A f \in DOMAIN logs["local"] :
                      x \notin Ids(UnreadLines("local", f))

C4_Swallowed == [][C4_StepSwallows]_vars /\ []C4_Returned

\* a call with omit_error = true has returned after its sink failed on one
\* line and then succeeded on the next line of the same file, within the budget
C4_Witness ==
    /\ loc["r1"].pc = "returned"
    /\ loc["r1"].omit_error
    /\ loc["r1"].lines_read = 2
    /\ loc["r1"].lines_read <= loc["r1"].max_lines
    /\ Len(sinkLog["r1"]) >= 2
    /\ LET n == Len(sinkLog["r1"])
       IN  /\ sinkLog["r1"][n - 1].line.id \in loc["r1"].failed
           /\ sinkLog["r1"][n].line.id \notin loc["r1"].failed
           /\ sinkLog["r1"][n].file = sinkLog["r1"][n - 1].file

(* ------------------------------- C5 ------------------------------------ *)
\* the entries of its listing that the call of p has dealt with: those before
\* the current one, and the current one when the call raised on it
Reached(p, j) ==
    \/ j < loc[p].i
    \/ j = loc[p].i /\ loc[p].pc = "raised"

\* C5 as stated: once a call has ended, every file that had nothing unread and
\* was older than 24 hours when the call began is gone, and so is its
\* checkpoint, whatever the other files and the budget.
C5_AlwaysDeleted ==
    Ended("r1") =>
        \A f \in snap["r1"].expired :
            f \notin DOMAIN logs["local"] /\ f \notin DOMAIN counter["local"]

\* C5 amended: every file that had nothing unread and was older than 24 hours
\* when the call began, and that the call has got to in its listing, is gone
\* together with its checkpoint; one that the call has ended without getting
\* to (budget used up or zero) is still there.
C5_DeletedWhenReached ==
    \A f \in snap["r1"].expired : \A j \in 1..Len(loc["r1"].listing) :
        loc["r1"].listing[j] = f =>
            /\ Reached("r1", j) =>
                  f \notin DOMAIN logs["local"] /\ f \notin DOMAIN counter["local"]
            /\ (Ended("r1") /\ ~Reached("r1", j)) => f \in DOMAIN logs["local"]

\* a call has delivered a line of one file and then deleted another file, which
\* had a checkpoint, nothing unread and was older than 24 hours
C5_Witness ==
    /\ loc["r1"].pc = "returned"
    /\ loc["r1"].lines_read >= 1
    /\ Len(loc["r1"].listing) = 2
    /\ Len(sinkLog["r1"]) > loc["r1"].lines_read
    /\ \E f \in snap["r1"].expired :
          /\ f \notin DOMAIN logs["local"]
          /\ f \notin DOMAIN counter["local"]
          /\ \E k \in 1..Len(sinkLog["r1"]) : sinkLog["r1"][k].file = f

(* ------------------------------- C6 ------------------------------------ *)
\* C6: whenever a step removes a log file, that file has no unread data and is
\* older than 24 hours in the state the step is taken from, appends made while
\* the call is running included.
C6_DeletesOnlyExhaustedOld ==
    [][\A f \in DOMAIN logs["local"] :
          f \notin DOMAIN logs'["local"] =>
              Unread("local", f) = 0 /\ f \in old["local"]]_vars

(* ------------------------------- C7 ------------------------------------ *)
\* C7: in every reachable state a checkpoint has its log file: the deletion of
\* an expired file never shows one of the two without the other.
C7_AllOrNothing ==
    \A f \in DOMAIN counter["local"] : f \in DOMAIN logs["local"]

(* ------------------------------- C10 ----------------------------------- *)
\* the offset that the counter artifact of f stands for in the artifacts c
OffsetOf(c, d, f) ==
    IF f \in DOMAIN c[d] /\ IsDigit(c[d][f]) THEN IntOf(c[d][f]) ELSE 0

\* C10: no step lowers the offset a checkpoint stands for (0 when the artifact
\* is missing or holds no number), whether the call returns or is aborted by
\* its sink; an artifact that a step removes goes with its deleted file.
C10_Monotone ==
    [][\A f \in DOMAIN counter'["local"] :
          OffsetOf(counter', "local", f) >= OffsetOf(counter, "local", f)]_vars

\* a call resumed a file at offset 2, its sink failed on the line it read
\* there, and the checkpoint moved on to offset 4
C10_Witness ==
    /\ loc["r1"].pc = "raised"
    /\ loc["r1"].exc = "callback"
    /\ loc["r1"].lines_read = 1
    /\ LET f == loc["r1"].listing[loc["r1"].i]
       IN  /\ Len(sinkLog["r1"]) >= 2
           /\ sinkLog["r1"][Len(sinkLog["r1"]) - 1].file = f
           /\ counter["local"][f] = Str(4)

(* ------------------------------- C8 ------------------------------------ *)
\* C8: a process_remote_log_stream call to a host with which no session can be
\* set up never calls the local callback, and when it has ended it has
\* returned, not raised, and has logged an error; on both transports.
C8_UnreachableHost ==
    ~rem.reachable =>
        /\ rem.calls = <<>>
        /\ rem.pc # "raised"
        /\ rem.pc = "returned" => "error" \in rem.logged

(* ------------------------------- C9 ------------------------------------ *)
\* C9: the same call, made on a folder whose file d1 has no counter artifact
\* and on a folder that differs only in d1 having a counter artifact that
\* holds "abc", ends the same way (returned, or raised with the same failure),
\* with the same lines handed to the callback, the same files left in the two
\* folders and the same counter artifacts, but for an artifact that still holds
\* "abc" where the other folder still has none.
C9_GarbledAsMissing ==
    (Ended("r1") /\ Ended("r2")) =>
        /\ loc["r1"].pc = loc["r2"].pc
        /\ loc["r1"].exc = loc["r2"].exc
        /\ sinkLog["r1"] = sinkLog["r2"]
        /\ logs["local"] = logs["peer"]
        /\ \A f \in Files :
              /\ LoadPosition("local", f) = LoadPosition("peer", f)
              /\ \/ /\ f \in DOMAIN counter["local"] <=> f \in DOMAIN counter["peer"]
                    /\ f \in DOMAIN counter["local"] => counter["local"][f] = counter["peer"][f]
                 \/ /\ f \notin DOMAIN counter["local"]
                    /\ f \in DOMAIN counter["peer"]
                    /\ counter["peer"][f] = Abc

(* ------------------------------- C11 ----------------------------------- *)
\* C11: in every reachable state the offset that the counter artifact of an
\* existing log file stands for is at most the length of that file, whatever
\* the interleaving of appends and calls.
C11_OffsetWithinLength ==
    \A f \in DOMAIN logs["local"] :
        OffsetOf(counter, "local", f) <= FileSize(logs["local"][f])

(* ------------------------------- C12 ----------------------------------- *)
\* C12: a process_remote_log_stream call whose local callback has failed has
\* returned and has logged the failure; a call that raises to its caller is
\* never one whose callback failed; on both transports.
C12_SinkFailureCaught ==
    /\ rem.failed => (rem.pc = "returned" /\ "exception" \in rem.logged)
    /\ rem.pc = "raised" => (~rem.failed /\ rem.calls = <<>>)

\* the callback failed on captured output that was not empty, and the call
\* has returned
C12_Witness ==
    /\ rem.pc = "returned"
    /\ rem.failed
    /\ rem.reachable
    /\ Len(rem.calls) = 1
    /\ rem.calls[1] # <<>>

(* ------------------------------- C13 ----------------------------------- *)
\* a call that is running ends, by returning or by raising
C13_Terminates == ~Idle("r1") ~> Ended("r1")

\* the callback has been called at most max_lines times in the call
C13_Bounded == loc["r1"].lines_read <= loc["r1"].max_lines

\* C13: every call ends, also while the writer appends to the files it reads,
\* and it never calls the callback more than max_lines times.
C13_TerminatesWithinBudget == C13_Terminates /\ []C13_Bounded

(* ------------------------------- C14 ----------------------------------- *)
\* the text of the counter artifact of f in the artifacts c (<<>>: none)
CounterOf(c, f) == IF f \in DOMAIN c THEN c[f] ELSE <<>>

\* the entries that the running or just ended call of p has added to sinkLog
SunkInCall(p) ==
    SubSeq(sinkLog[p], Len(sinkLog[p]) - loc[p].lines_read + 1, Len(sinkLog[p]))

\* a failure of the callback with omit_error = false has ended the call, and
\* every file that comes later in the listing is still there, with the counter
\* artifact it had when the call began and none of its lines handed over
C14_AbortLeavesLater ==
    LET l == loc["r1"] IN
    (~l.omit_error /\ l.failed # {}) =>
        /\ l.pc = "raised"
        /\ l.exc = "callback"
        /\ \A j \in (l.i + 1)..Len(l.listing) :
              LET f == l.listing[j] IN
              /\ f \in DOMAIN logs["local"]
              /\ CounterOf(counter["local"], f) = CounterOf(snap["r1"].counter, f)
              /\ \A k \in 1..Len(SunkInCall("r1")) : SunkInCall("r1")[k].file # f

\* a step changes the counter artifact of no file but the one the call is at,
\* and changes none once the call has ended
C14_StepFrame ==
    LET l == loc["r1"] IN
    \A f \in Files :
        (l.pc \in {"idle", "returned", "raised"} \/ l.i > Len(l.listing) \/ f # l.listing[l.i])
            => CounterOf(counter'["local"], f) = CounterOf(counter["local"], f)

\* C14: a call that a failure of the callback aborts (omit_error = false)
\* leaves every file later in its listing untouched: none of its lines reach
\* the callback, its checkpoint is as it was, it is not deleted; and the files
\* the call dealt with before keep the checkpoints written for them.
C14_AbortFrame == [][C14_StepFrame]_vars /\ []C14_AbortLeavesLater

\* the call was aborted on the first file of its listing after it had saved
\* nothing for the second, which holds an unread line
C14_Witness ==
    /\ loc["r1"].pc = "raised"
    /\ loc["r1"].exc = "callback"
    /\ loc["r1"].i = 1
    /\ Len(loc["r1"].listing) = 2
    /\ loc["r1"].listing[2] \in DOMAIN logs["local"]
    /\ Unread("local", loc["r1"].listing[2]) >= 1

(* ------------------------------- C15 ----------------------------------- *)
\* C15: a file that had nothing unread and was older than 24 hours when the
\* call began never makes the call raise: whether its counter artifact holds a
\* number, holds no number or is missing, the call that gets to it deletes it
\* and goes on with the rest of its listing.
C15_ExpiredNeverFails ==
    \A f \in snap["r1"].expired : \A j \in 1..Len(loc["r1"].listing) :
        (loc["r1"].listing[j] = f /\ j <= loc["r1"].i) =>
            ~(loc["r1"].pc = "raised" /\ loc["r1"].exc = "unlink" /\ j = loc["r1"].i)

(* ------------------------------- C16 ----------------------------------- *)
\* every existing file has its checkpoint at its length
C16_AllRead ==
    \A f \in DOMAIN logs["local"] :
        OffsetOf(counter, "local", f) = FileSize(logs["local"][f])

\* every appended line has reached the callback or is still unread in its file
C16_NoLineLost ==
    \A x \in Appended :
        \/ x \in Range(SunkIds("r1"))
        \/ \E f \in DOMAIN logs["local"] : x \in Ids(UnreadLines("local", f))

\* from some point on every file is read to its end
C16_EventuallyRead == <>[]C16_AllRead

\* C16: with repeated calls (max_lines >= 1, callback never failing) and a
\* writer that stops at some point, from some point on every file that is left
\* has its checkpoint at its length, and no appended line is ever lost.
C16_EventuallyAllDelivered == C16_EventuallyRead /\ []C16_NoLineLost

(* ------------------------------- C17 ----------------------------------- *)
\* C17: when a process_remote_log_stream call has returned, its callback has
\* been called once for every line of the captured output, in the order of
\* the output, each time with that one line (an argument is recorded as the
\* sequence of the lines it holds).
C17_LineByLine ==
    rem.pc = "returned" =>
        /\ Len(rem.calls) = Len(rem.lines)
        /\ \A k \in 1..Len(rem.calls) : rem.calls[k] = <<rem.lines[k]>>

(* ------------------------------- C18 ----------------------------------- *)
\* as long as no call has begun while another was running, no step lowers
\* the offset of a checkpoint
C18_StepKeeps ==
    snap'["r1"].alone =>
        \A f \in DOMAIN counter'["local"] :
            OffsetOf(counter', "local", f) >= OffsetOf(counter, "local", f)

\* as long as no call has begun while another was running, no line has
\* reached the callbacks twice
C18_OnceWhenApart ==
    snap["r1"].alone => NoRepeat(SunkIds("r1") \o SunkIds("r2"))

\* C18: the delivery guarantees rest on the calls being kept apart: while no
\* two calls on the stream overlap no line is delivered twice and no
\* checkpoint is lowered; two calls that overlap can load the same checkpoint,
\* deliver the same line twice and write a lower offset over a higher one
\* (the state C18_Witness).
C18_UnsafeUnlessApart == [][C18_StepKeeps]_vars /\ []C18_OnceWhenApart

\* two calls have overlapped: r2 has returned from a call in which it delivered
\* the three lines of a file, so it saved offset 6; the first of these lines
\* has also reached the callback of r1, and the checkpoint now stands at 4
C18_Witness ==
    /\ ~snap["r1"].alone
    /\ loc["r2"].pc = "returned"
    /\ \E f \in DOMAIN logs["local"] :
          /\ Len(logs["local"][f]) = 3
          /\ Len(SunkInCall("r2")) = 3
          /\ \A k \in 1..3 : SunkInCall("r2")[k] = [line |-> logs["local"][f][k], file |-> f]
          /\ logs["local"][f][1].id \in Range(SunkIds("r1"))
          /\ f \in DOMAIN counter["local"]
          /\ counter["local"][f] = Str(4)

(* ------------------------------- C19 ----------------------------------- *)
\* the last entry of s that is about file f (f occurs in s)
LastOf(s, f) ==
    s[CHOOSE k \in 1..Len(s) :
        s[k].file = f /\ \A m \in (k + 1)..Len(s) : s[m].file # f]

\* C19: when a call has returned or has been aborted by its callback, every
\* file of which it handed lines to the callback has as checkpoint the offset
\* just after the last of these lines: no line was passed over without being
\* handed to the callback, the line at which the budget ended the reading
\* included.
C19_CheckpointAfterLastSunk ==
    (loc["r1"].pc = "returned" \/ (loc["r1"].pc = "raised" /\ loc["r1"].exc = "callback")) =>
        \A k \in 1..Len(SunkInCall("r1")) :
            LET f == SunkInCall("r1")[k].file
                x == LastOf(SunkInCall("r1"), f).line.id
            IN  /\ f \in DOMAIN logs["local"]
                /\ f \in DOMAIN counter["local"]
                /\ counter["local"][f] = Str(OffsetAfter(logs["local"][f], x))
                /\ \A y \in Ids(logs["local"][f]) \ Ids(UnreadLines("local", f)) :
                      y \in Range(SunkIds("r1"))

\* the budget ended the reading of a file in the middle: the call has returned
\* with more than max_lines lines read and a line of the file still unread
C19_Witness ==
    /\ loc["r1"].pc = "returned"
    /\ loc["r1"].lines_read > loc["r1"].max_lines
    /\ loc["r1"].failed = {}
    /\ \E f \in DOMAIN logs["local"] :
          /\ Len(logs["local"][f]) = 3
          /\ \E k \in 1..Len(SunkInCall("r1")) : SunkInCall("r1")[k].file = f
          /\ LastOf(SunkInCall("r1"), f).line.id = logs["local"][f][2].id
          /\ Unread("local", f) = 1

(* ------------------------------- C20 ----------------------------------- *)
\* C20: when the output of the remote pass is about to be handed to the local
\* callback, and after, the checkpoints on the other host stand past every
\* line of that output; and no line is ever written to the output of two
\* passes, so a line on which the local callback failed is not delivered
\* again by a later call.
C20_AtMostOnce ==
    /\ NoRepeat(SunkIds("r2"))
    /\ rem.pc \in {"callback", "returned"} =>
          \A k \in 1..Len(rem.lines) : \A f \in DOMAIN logs["peer"] :
              rem.lines[k].line.id \notin Ids(UnreadLines("peer", f))

\* an earlier call had its callback fail on output that held lines; a later
\* call has returned with output that holds the lines appended since
C20_Witness ==
    /\ ~snap["r2"].clean
    /\ rem.pc = "returned"
    /\ rem.mark > 0
    /\ rem.lines # <<>>
    /\ Len(sinkLog["r2"]) = rem.mark + Len(rem.lines)

====
